---- MODULE Spec2Model ----
(***************************************************************************)
(* A model of pgcontents' query layer (src/pgcontents/query.py): the       *)
(* relational tables users, directories, files, checkpoints and            *)
(* remote_checkpoints, and one action per query function.  Strings are     *)
(* sequences of one-character strings, so the path arithmetic of the code  *)
(* (strip, rsplit, rindex, slicing) is computed and not assumed.           *)
(*                                                                         *)
(* The backing store is PostgreSQL.  Where a statement leaves the outcome  *)
(* open (ORDER BY created_at with equal timestamps, LIMIT 1 among them,    *)
(* DISTINCT ON among equal sort keys) the model takes every outcome the    *)
(* store may produce.                                                      *)
(***************************************************************************)
EXTENDS Integers, Sequences, FiniteSets, TLC

VARIABLES
    users,              \* table users: set of ids
    directories,        \* table directories: set of rows
    files,              \* table files: set of rows, one per saved version
    checkpoints,        \* table checkpoints: set of rows
    remote_checkpoints, \* table remote_checkpoints: set of rows
    file_id_seq,        \* last value of the serial files.id
    checkpoint_id_seq,  \* last value of the serial checkpoints.id
    remote_id_seq,      \* last value of the serial remote_checkpoints.id
    now,                \* the value func.now() yields
    last,               \* the last call: its arguments, what it raised or returned
    sessions            \* the calls in flight of the concurrent callers

vars == <<users, directories, files, checkpoints, remote_checkpoints,
          file_id_seq, checkpoint_id_seq, remote_id_seq, now, last, sessions>>

remote == <<remote_checkpoints, remote_id_seq>>

-----------------------------------------------------------------------------
(* Bounds of the model. *)

MaxFileId == 2

MaxCheckpointId == 1

MaxTime == 2

\* Snapshots (remote checkpoints) saved in a run.
MaxRemoteId == 2

\* Versions, and checkpoints, in the store whose checkpoints are listed.
MaxListed == 2

\* Concurrent callers, and the calls each of them makes.
MaxSessions == 2

MaxCalls == 2

-----------------------------------------------------------------------------
(* Values. *)

\* SQL NULL in a string column: no string of characters equals it.
NullStr == <<"NULL">>

\* SQL NULL in an integer column; serial ids start at 1.
NullId == 0

\* constants.UNLIMITED, the max_size_bytes that switches the size check off.
UNLIMITED == 0

UserIds == {1}

\* API paths of directories: '' (the root) and 'a'.
ApiDirs == { <<>>, <<"a">> }

\* API paths of files: 'f', 'g', 'h' in the root and 'a/f' in directory a.
ApiFiles == { <<"f">>, <<"g">>, <<"h">>, <<"a", "/", "f">> }

\* File bodies, of length 1 and 2.
Contents == { <<"v">>, <<"w", "w">> }

\* max_size_bytes a caller passes.
MaxSizes == { UNLIMITED, 1 }

Max(S) == CHOOSE x \in S : \A y \in S : y <= x

Sessions == 1..MaxSessions

\* A caller that has not called yet.
Idle ==
    [pc |-> "idle", op |-> "none", user_id |-> NullId, path |-> <<>>,
     result |-> "ok", inserted |-> FALSE, calls |-> 0]

-----------------------------------------------------------------------------
(* Path codec (api_utils, imported at query.py:21-25). *)

RECURSIVE lstrip(_)
lstrip(s) == IF s # <<>> /\ Head(s) = "/" THEN lstrip(Tail(s)) ELSE s

RECURSIVE rstrip(_)
rstrip(s) ==
    IF s # <<>> /\ s[Len(s)] = "/" THEN rstrip(SubSeq(s, 1, Len(s) - 1)) ELSE s

\* api_path.strip('/')
normalize_api_path(api_path) == rstrip(lstrip(api_path))

\* '' -> '/', 'a/b' -> '/a/b/'
from_api_dirname(api_dirname) ==
    LET normalized == normalize_api_path(api_dirname)
    IN  IF normalized = <<>> THEN <<"/">> ELSE <<"/">> \o normalized \o <<"/">>

\* 'a/b' -> '/a/b'
from_api_filename(api_path) == <<"/">> \o normalize_api_path(api_path)

\* s.rindex('/', lo, hi) over 1-based positions lo..hi; 0 when there is none.
rindex(s, lo, hi) ==
    LET at == { i \in lo..hi : s[i] = "/" }
    IN  IF at = {} THEN 0 ELSE Max(at)

\* path.rsplit('/', 1), then the directory part through from_api_dirname.
split_api_filepath(path) ==
    LET i == rindex(path, 1, Len(path))
    IN  IF i = 0
        THEN [directory |-> from_api_dirname(<<"/">>), name |-> path]
        ELSE [directory |-> from_api_dirname(SubSeq(path, 1, i - 1) \o <<"/">>),
              name      |-> SubSeq(path, i + 1, Len(path))]

-----------------------------------------------------------------------------
(* What a call leaves behind: its arguments, the exception it raised (or   *)
(* "ok", or the boolean it returned) and the records it returned.          *)

Called(op, user_id, path, path2, checkpoint_id, content, result, ret) ==
    [op |-> op, user_id |-> user_id, path |-> path, path2 |-> path2,
     checkpoint_id |-> checkpoint_id, content |-> content,
     result |-> result, ret |-> ret]

\* A returned record (to_dict); a field the query does not select is NULL.
\* pos is the record's place in a returned list whose order the query
\* fixes, and 0 otherwise.
Record(pos, id, name, parent_name, created_at, content) ==
    [pos |-> pos, id |-> id, name |-> name, parent_name |-> parent_name,
     created_at |-> created_at, content |-> content]

-----------------------------------------------------------------------------
(* The state after the schema is created: every table empty. *)

Init ==
    /\ users = {}
    /\ directories = {}
    /\ files = {}
    /\ checkpoints = {}
    /\ remote_checkpoints = {}
    /\ file_id_seq = 0
    /\ checkpoint_id_seq = 0
    /\ remote_id_seq = 0
    /\ now = 1
    /\ last = Called("init", NullId, <<>>, <<>>, NullId, <<>>, "ok", {})
    /\ sessions = [s \in Sessions |-> Idle]

\* Time passes between two statements; func.now() need not have advanced
\* between two calls (one transaction, or the clock's granularity).
Tick ==
    /\ now < MaxTime
    /\ now' = now + 1
    /\ UNCHANGED <<users, directories, files, checkpoints, remote, sessions,
                   file_id_seq, checkpoint_id_seq, last>>

-----------------------------------------------------------------------------
(* Users (query.py:52-74). *)

\* with ignore_unique_violation(): INSERT INTO users; a duplicate is swallowed.
ensure_db_user(user_id) ==
    /\ users' = users \cup {user_id}
    /\ last' = Called("ensure_db_user", user_id, <<>>, <<>>, NullId, <<>>, "ok", {})
    /\ UNCHANGED <<directories, files, checkpoints, remote, sessions,
                   file_id_seq, checkpoint_id_seq, now>>

-----------------------------------------------------------------------------
(* Directories (query.py:80-253). *)

\* The constraints of table directories: (user_id, name) is unique, user_id
\* references users.id, (parent_user_id, parent_name) references a directory.
directories_insert_error(row) ==
    IF \E d \in directories : d.user_id = row.user_id /\ d.name = row.name
    THEN "IntegrityError(UNIQUE_VIOLATION)"
    ELSE IF \/ row.user_id \notin users
            \/ /\ row.parent_name # NullStr
               /\ ~ \E d \in directories :
                      d.user_id = row.parent_user_id /\ d.name = row.parent_name
    THEN "IntegrityError(FOREIGN_KEY_VIOLATION)"
    ELSE "ok"

\* The row create_directory inserts for api_path.
directory_row(user_id, api_path) ==
    LET name == from_api_dirname(api_path)
    IN  IF name = <<"/">>
        THEN [user_id |-> user_id, name |-> name,
              parent_user_id |-> NullId, parent_name |-> NullStr]
        ELSE \* name[:name.rindex('/', 0, -1) + 1]
             [user_id |-> user_id, name |-> name,
              parent_user_id |-> user_id,
              parent_name |-> SubSeq(name, 1, rindex(name, 1, Len(name) - 1))]

\* create_directory with the insert wrapped in ignore_unique_violation(): a
\* duplicate is reported as success.
create_directory_swallowing(user_id, api_path) ==
    LET row == directory_row(user_id, api_path)
        err == directories_insert_error(row)
    IN  /\ directories' = IF err = "ok" THEN directories \cup {row} ELSE directories
        /\ last' = Called("create_directory", user_id, api_path, <<>>, NullId, <<>>,
                          IF err = "IntegrityError(UNIQUE_VIOLATION)" THEN "ok" ELSE err,
                          {})
        /\ UNCHANGED <<users, files, checkpoints, remote, sessions,
                       file_id_seq, checkpoint_id_seq, now>>

\* create_directory lets the store's IntegrityError through as it is.
create_directory(user_id, api_path) ==
    LET row == directory_row(user_id, api_path)
        err == directories_insert_error(row)
    IN  /\ directories' = IF err = "ok" THEN directories \cup {row} ELSE directories
        /\ last' = Called("create_directory", user_id, api_path, <<>>, NullId,
                          <<>>, err, {})
        /\ UNCHANGED <<users, files, checkpoints, remote, sessions,
                       file_id_seq, checkpoint_id_seq, now>>

\* with ignore_unique_violation(): create_directory(...)
ensure_directory(user_id, api_path) ==
    LET row == directory_row(user_id, api_path)
        err == directories_insert_error(row)
    IN  /\ directories' = IF err = "ok" THEN directories \cup {row} ELSE directories
        /\ last' = Called("ensure_directory", user_id, api_path, <<>>, NullId, <<>>,
                          IF err = "IntegrityError(UNIQUE_VIOLATION)" THEN "ok" ELSE err,
                          {})
        /\ UNCHANGED <<users, files, checkpoints, remote, sessions,
                       file_id_seq, checkpoint_id_seq, now>>

\* _is_in_directory matching every row below the directory: parent_name LIKE
\* db_dirname || '%'.
_is_in_directory_below(row, user_id, db_dirname) ==
    /\ Len(row.parent_name) >= Len(db_dirname)
    /\ SubSeq(row.parent_name, 1, Len(db_dirname)) = db_dirname
    /\ row.user_id = user_id

\* _is_in_directory: parent_name == db_dirname AND user_id == user_id.
_is_in_directory(row, user_id, db_dirname) ==
    /\ row.parent_name = db_dirname
    /\ row.user_id = user_id

\* The store refuses to delete a directory row that a file row or a
\* directory row still references (the foreign keys of files and directories).
directory_is_referenced(d) ==
    \/ \E f \in files : f.user_id = d.user_id /\ f.parent_name = d.name
    \/ \E c \in directories : c.parent_user_id = d.user_id /\ c.parent_name = d.name

\* delete_directory with the pgcode test inverted: the foreign-key violation
\* is re-raised as it is.
delete_directory_reraising(user_id, api_path) ==
    LET db_dirname == from_api_dirname(api_path)
        matched == { d \in directories : d.user_id = user_id /\ d.name = db_dirname }
        result ==
            IF \E d \in matched : directory_is_referenced(d)
            THEN "IntegrityError(FOREIGN_KEY_VIOLATION)"
            ELSE IF matched = {} THEN "NoSuchDirectory"
            ELSE "ok"
    IN  /\ directories' = IF result = "ok" THEN directories \ matched ELSE directories
        /\ last' = Called("delete_directory", user_id, api_path, <<>>, NullId,
                          <<>>, result, {})
        /\ UNCHANGED <<users, files, checkpoints, remote, sessions,
                       file_id_seq, checkpoint_id_seq, now>>

delete_directory(user_id, api_path) ==
    LET db_dirname == from_api_dirname(api_path)
        matched == { d \in directories : d.user_id = user_id /\ d.name = db_dirname }
        result ==
            IF \E d \in matched : directory_is_referenced(d)
            THEN "DirectoryNotEmpty"        \* pgcode == FOREIGN_KEY_VIOLATION
            ELSE IF matched = {} THEN "NoSuchDirectory"
            ELSE "ok"
    IN  /\ directories' = IF result = "ok" THEN directories \ matched ELSE directories
        /\ last' = Called("delete_directory", user_id, api_path, <<>>, NullId,
                          <<>>, result, {})
        /\ UNCHANGED <<users, files, checkpoints, remote, sessions,
                       file_id_seq, checkpoint_id_seq, now>>

\* SELECT count(name) FROM directories WHERE user_id = .. AND name = .. ; != 0
_dir_exists(dirs, user_id, db_dirname) ==
    Cardinality({ d \in dirs : d.user_id = user_id /\ d.name = db_dirname }) # 0

dir_exists(user_id, api_dirname) ==
    /\ last' = Called("dir_exists", user_id, api_dirname, <<>>, NullId, <<>>,
                      IF _dir_exists(directories, user_id, from_api_dirname(api_dirname))
                      THEN "True" ELSE "False",
                      {})
    /\ UNCHANGED <<users, directories, files, checkpoints, remote, sessions,
                   file_id_seq, checkpoint_id_seq, now>>

-----------------------------------------------------------------------------
(* Files (query.py:259-414). *)

\* _file_where without files.c.user_id == user_id.
_file_where_any_user(f, user_id, api_path) ==
    LET split == split_api_filepath(api_path)
    IN  /\ f.name = split.name
        /\ f.parent_name = split.directory

\* _file_where: name == name AND user_id == user_id AND parent_name == directory.
_file_where(f, user_id, api_path) ==
    LET split == split_api_filepath(api_path)
    IN  /\ f.name = split.name
        /\ f.user_id = user_id
        /\ f.parent_name = split.directory

\* _select_file(..., limit=1): SELECT .. WHERE _file_where ORDER BY created_at
\* DESC LIMIT 1.  The rows the statement may return: with several rows of the
\* greatest created_at the store returns any one of them.
_select_file(rows, user_id, api_path) ==
    LET matching == { f \in rows : _file_where(f, user_id, api_path) }
    IN  { f \in matching : \A g \in matching : g.created_at <= f.created_at }

\* _file_default_fields, plus content when include_content.
file_record(f, include_content) ==
    Record(0, NullId, f.name, f.parent_name, f.created_at,
           IF include_content THEN f.content ELSE NullStr)

get_file(user_id, api_path, include_content) ==
    LET first == _select_file(files, user_id, api_path)
    IN  /\ IF first = {}
           THEN last' = Called("get_file", user_id, api_path, <<>>, NullId, <<>>,
                               "NoSuchFile", {})
           ELSE \E f \in first :
                    last' = Called("get_file", user_id, api_path, <<>>, NullId, <<>>,
                                   "ok", {file_record(f, include_content)})
        /\ UNCHANGED <<users, directories, files, checkpoints, remote, sessions,
                       file_id_seq, checkpoint_id_seq, now>>

\* get_file(..., include_content=False) raised NoSuchFile or not.
file_exists_in(rows, user_id, path) == _select_file(rows, user_id, path) # {}

file_exists(user_id, path) ==
    /\ last' = Called("file_exists", user_id, path, <<>>, NullId, <<>>,
                      IF file_exists_in(files, user_id, path) THEN "True" ELSE "False",
                      {})
    /\ UNCHANGED <<users, directories, files, checkpoints, remote, sessions,
                   file_id_seq, checkpoint_id_seq, now>>

\* SELECT DISTINCT ON (user_id, parent_name, name) .. ORDER BY user_id,
\* parent_name, name, created_at: of the rows of one (user_id, parent_name,
\* name) the first in ascending created_at is kept; among rows of that
\* created_at the store keeps any one.
files_in_directory(user_id, db_dirname) ==
    LET matching == { f \in files : _is_in_directory(f, user_id, db_dirname) }
        same_key(f, g) == /\ f.user_id = g.user_id
                          /\ f.parent_name = g.parent_name
                          /\ f.name = g.name
    IN  /\ \E kept \in SUBSET matching :
              /\ \A f \in matching : \E g \in kept : same_key(f, g)
              /\ \A f, g \in kept : same_key(f, g) => f = g
              /\ \A g \in kept : \A f \in matching :
                     same_key(f, g) => g.created_at <= f.created_at
              /\ last' = Called("files_in_directory", user_id, db_dirname, <<>>,
                                NullId, <<>>, "ok",
                                { file_record(f, FALSE) : f \in kept })
        /\ UNCHANGED <<users, directories, files, checkpoints, remote, sessions,
                       file_id_seq, checkpoint_id_seq, now>>

\* checkpoints.file_id references files.id ON DELETE CASCADE.
cascade_checkpoints(deleted) ==
    { c \in checkpoints : ~ \E f \in deleted : c.file_id = f.id }

\* delete_file deleting what _select_file(..., limit=1) selects: the latest
\* version only.
delete_file_latest(user_id, api_path) ==
    LET latest == _select_file(files, user_id, api_path)
    IN  /\ \E matched \in SUBSET latest :
              /\ Cardinality(matched) = IF latest = {} THEN 0 ELSE 1
              /\ files' = files \ matched
              /\ checkpoints' = cascade_checkpoints(matched)
        /\ last' = Called("delete_file", user_id, api_path, <<>>, NullId, <<>>,
                          IF latest = {} THEN "NoSuchFile" ELSE "ok", {})
        /\ UNCHANGED <<users, directories, remote, sessions,
                       file_id_seq, checkpoint_id_seq, now>>

delete_file(user_id, api_path) ==
    LET matched == { f \in files : _file_where(f, user_id, api_path) }
    IN  /\ files' = files \ matched
        /\ checkpoints' = cascade_checkpoints(matched)
        /\ last' = Called("delete_file", user_id, api_path, <<>>, NullId, <<>>,
                          IF matched = {} THEN "NoSuchFile" ELSE "ok", {})
        /\ UNCHANGED <<users, directories, remote, sessions,
                       file_id_seq, checkpoint_id_seq, now>>

\* The UPDATE of rename_file: WHERE user_id == user_id AND parent_name ==
\* new_dir, SET name = new_name.
rename_update(rows, user_id, new_dir, new_name) ==
    { IF f.user_id = user_id /\ f.parent_name = new_dir
      THEN [f EXCEPT !.name = new_name]
      ELSE f : f \in rows }

\* rename_file without the file_exists test on the destination.
rename_file_unchecked(user_id, old_api_path, new_api_path) ==
    LET old == split_api_filepath(old_api_path)
        new == split_api_filepath(new_api_path)
        result == IF old.directory # new.directory THEN "ValueError" ELSE "ok"
    IN  /\ files' = IF result = "ok"
                    THEN rename_update(files, user_id, new.directory, new.name)
                    ELSE files
        /\ last' = Called("rename_file", user_id, old_api_path, new_api_path,
                          NullId, <<>>, result, {})
        /\ UNCHANGED <<users, directories, checkpoints, remote, sessions,
                       file_id_seq, checkpoint_id_seq, now>>

rename_file(user_id, old_api_path, new_api_path) ==
    LET old == split_api_filepath(old_api_path)
        new == split_api_filepath(new_api_path)
        result == IF old.directory # new.directory THEN "ValueError"
                  ELSE IF file_exists_in(files, user_id, new_api_path) THEN "FileExists"
                  ELSE "ok"
    IN  /\ files' = IF result = "ok"
                    THEN rename_update(files, user_id, new.directory, new.name)
                    ELSE files
        /\ last' = Called("rename_file", user_id, old_api_path, new_api_path,
                          NullId, <<>>, result, {})
        /\ UNCHANGED <<users, directories, checkpoints, remote, sessions,
                       file_id_seq, checkpoint_id_seq, now>>

\* check_content: max_size_bytes != UNLIMITED and len(content) > max_size_bytes.
check_content(content, max_size_bytes) ==
    max_size_bytes # UNLIMITED /\ Len(content) > max_size_bytes

\* The foreign keys of table files: user_id references users.id and
\* (user_id, parent_name) references a directory.
files_insert_error(row) ==
    IF \/ row.user_id \notin users
       \/ ~ \E d \in directories : d.user_id = row.user_id /\ d.name = row.parent_name
    THEN "IntegrityError(FOREIGN_KEY_VIOLATION)"
    ELSE "ok"

\* save_file without the call of check_content.
save_file_unlimited(user_id, path, content, max_size_bytes) ==
    LET split == split_api_filepath(path)
        row == [id |-> file_id_seq + 1, name |-> split.name, user_id |-> user_id,
                parent_name |-> split.directory, content |-> content,
                created_at |-> now]
        result == files_insert_error(row)
    IN  /\ file_id_seq < MaxFileId
        /\ files' = IF result = "ok" THEN files \cup {row} ELSE files
        /\ file_id_seq' = IF result = "ok" THEN file_id_seq + 1 ELSE file_id_seq
        /\ last' = Called("save_file", user_id, path, <<>>, NullId, content,
                          result, {})
        /\ UNCHANGED <<users, directories, checkpoints, remote, sessions,
                       checkpoint_id_seq, now>>

\* INSERT INTO files (name, user_id, parent_name, content); id is the next
\* value of the serial, created_at defaults to now().
save_file(user_id, path, content, max_size_bytes) ==
    LET split == split_api_filepath(path)
        row == [id |-> file_id_seq + 1, name |-> split.name, user_id |-> user_id,
                parent_name |-> split.directory, content |-> content,
                created_at |-> now]
        result == IF check_content(content, max_size_bytes) THEN "FileTooLarge"
                  ELSE files_insert_error(row)
    IN  /\ file_id_seq < MaxFileId
        /\ files' = IF result = "ok" THEN files \cup {row} ELSE files
        /\ file_id_seq' = IF result = "ok" THEN file_id_seq + 1 ELSE file_id_seq
        /\ last' = Called("save_file", user_id, path, <<>>, NullId, content,
                          result, {})
        /\ UNCHANGED <<users, directories, checkpoints, remote, sessions,
                       checkpoint_id_seq, now>>

-----------------------------------------------------------------------------
(* Checkpoints (query.py:420-539). *)

\* INSERT INTO checkpoints (file_id) VALUES ((SELECT files.id .. LIMIT 1))
\* RETURNING id, created_at.  A VALUES insert always inserts one row; when the
\* subquery selects no row its value is NULL.  The store then either refuses
\* the row (file_id NOT NULL) or keeps it (file_id nullable): the column's
\* declaration is the schema's, and both outcomes are taken.
create_checkpoint(user_id, api_path) ==
    LET latest_version == _select_file(files, user_id, api_path)
        id == checkpoint_id_seq + 1
    IN  /\ checkpoint_id_seq < MaxCheckpointId
        /\ IF latest_version = {}
           THEN \E nullable \in BOOLEAN :
                    IF nullable
                    THEN /\ checkpoints' = checkpoints \cup
                              {[id |-> id, file_id |-> NullId, created_at |-> now]}
                         /\ checkpoint_id_seq' = id
                         /\ last' = Called("create_checkpoint", user_id, api_path,
                                           <<>>, NullId, <<>>, "ok",
                                           {Record(0, id, NullStr, NullStr, now, NullStr)})
                    ELSE /\ UNCHANGED <<checkpoints, checkpoint_id_seq>>
                         /\ last' = Called("create_checkpoint", user_id, api_path,
                                           <<>>, NullId, <<>>,
                                           "IntegrityError(NOT_NULL_VIOLATION)", {})
           ELSE \E f \in latest_version :
                    /\ checkpoints' = checkpoints \cup
                            {[id |-> id, file_id |-> f.id, created_at |-> now]}
                    /\ checkpoint_id_seq' = id
                    /\ last' = Called("create_checkpoint", user_id, api_path,
                                      <<>>, NullId, <<>>, "ok",
                                      {Record(0, id, NullStr, NullStr, now, NullStr)})
        /\ UNCHANGED <<users, directories, files, remote, sessions, file_id_seq, now>>

\* The rows of files JOIN checkpoints ON files.id = checkpoints.file_id that
\* satisfy _file_where, as pairs <<checkpoint, file>>.
checkpoints_of(cps, rows, user_id, api_path) ==
    { cf \in cps \X rows :
        cf[2].id = cf[1].file_id /\ _file_where(cf[2], user_id, api_path) }

\* list_checkpoints with ORDER BY files.created_at ASC.
list_checkpoints_asc(user_id, api_path) ==
    LET joined == checkpoints_of(checkpoints, files, user_id, api_path)
    IN  /\ \E pos \in [joined -> 1..Cardinality(joined)] :
              /\ \A x, y \in joined : x # y => pos[x] # pos[y]
              /\ \A x, y \in joined :
                     pos[x] < pos[y] => x[2].created_at <= y[2].created_at
              /\ last' = Called("list_checkpoints", user_id, api_path, <<>>,
                                NullId, <<>>, "ok",
                                { Record(pos[x], x[1].id, NullStr, NullStr,
                                         x[1].created_at, NullStr) : x \in joined })
        /\ UNCHANGED <<users, directories, files, checkpoints, remote, sessions,
                       file_id_seq, checkpoint_id_seq, now>>

\* SELECT checkpoints.id, checkpoints.created_at FROM files JOIN checkpoints
\* .. ORDER BY files.created_at DESC: any order of the rows in which no row
\* precedes one of a later files.created_at.
list_checkpoints(user_id, api_path) ==
    LET joined == checkpoints_of(checkpoints, files, user_id, api_path)
    IN  /\ \E pos \in [joined -> 1..Cardinality(joined)] :
              /\ \A x, y \in joined : x # y => pos[x] # pos[y]
              /\ \A x, y \in joined :
                     pos[x] < pos[y] => x[2].created_at >= y[2].created_at
              /\ last' = Called("list_checkpoints", user_id, api_path, <<>>,
                                NullId, <<>>, "ok",
                                { Record(pos[x], x[1].id, NullStr, NullStr,
                                         x[1].created_at, NullStr) : x \in joined })
        /\ UNCHANGED <<users, directories, files, checkpoints, remote, sessions,
                       file_id_seq, checkpoint_id_seq, now>>

\* restore_checkpoint whose UPDATE lacks files.id = checkpoints.file_id: every
\* version of the file is the latest one again.
restore_checkpoint_every_version(user_id, api_path, checkpoint_id) ==
    LET matched == { f \in files :
                       /\ _file_where(f, user_id, api_path)
                       /\ \E c \in checkpoints : c.id = checkpoint_id }
    IN  /\ files' = { IF f \in matched THEN [f EXCEPT !.created_at = now] ELSE f :
                      f \in files }
        /\ last' = Called("restore_checkpoint", user_id, api_path, <<>>,
                          checkpoint_id, <<>>,
                          IF matched = {} THEN "NoSuchFile" ELSE "ok", {})
        /\ UNCHANGED <<users, directories, checkpoints, remote, sessions,
                       file_id_seq, checkpoint_id_seq, now>>

\* UPDATE files SET created_at = now() FROM checkpoints WHERE checkpoints.id =
\* checkpoint_id AND files.id = checkpoints.file_id AND _file_where.
restore_checkpoint(user_id, api_path, checkpoint_id) ==
    LET matched == { cf[2] : cf \in { x \in checkpoints_of(checkpoints, files, user_id, api_path) :
                                        x[1].id = checkpoint_id } }
    IN  /\ files' = { IF f \in matched THEN [f EXCEPT !.created_at = now] ELSE f :
                      f \in files }
        /\ last' = Called("restore_checkpoint", user_id, api_path, <<>>,
                          checkpoint_id, <<>>,
                          IF matched = {} THEN "NoSuchFile" ELSE "ok", {})
        /\ UNCHANGED <<users, directories, checkpoints, remote, sessions,
                       file_id_seq, checkpoint_id_seq, now>>

\* DELETE FROM checkpoints USING files WHERE files.user_id = .. AND files.name
\* = .. AND files.parent_name = .. AND checkpoints.id = .. AND
\* checkpoints.file_id = files.id.
delete_checkpoint(user_id, api_path, checkpoint_id) ==
    LET matched == { cf[1] : cf \in { x \in checkpoints_of(checkpoints, files, user_id, api_path) :
                                        x[1].id = checkpoint_id } }
    IN  /\ checkpoints' = checkpoints \ matched
        /\ last' = Called("delete_checkpoint", user_id, api_path, <<>>,
                          checkpoint_id, <<>>,
                          IF matched = {} THEN "NoSuchFile" ELSE "ok", {})
        /\ UNCHANGED <<users, directories, files, remote, sessions,
                       file_id_seq, checkpoint_id_seq, now>>

-----------------------------------------------------------------------------
(* One user's calls on the whole store, from the empty tables.  The reads   *)
(* taken here are get_file and files_in_directory; the other reads are     *)
(* taken in the specifications of the single stores below.                 *)

EnsureDbUser == \E u \in UserIds : ensure_db_user(u)

CreateDirectory == \E u \in UserIds, d \in ApiDirs : create_directory(u, d)

EnsureDirectory == \E u \in UserIds, d \in ApiDirs : ensure_directory(u, d)

DeleteDirectory == \E u \in UserIds, d \in ApiDirs : delete_directory(u, d)

SaveFile ==
    \E u \in UserIds, p \in ApiFiles, c \in Contents, m \in MaxSizes :
        save_file(u, p, c, m)

GetFile == \E u \in UserIds, p \in ApiFiles : get_file(u, p, TRUE)

FilesInDirectory ==
    \E u \in UserIds, d \in ApiDirs : files_in_directory(u, from_api_dirname(d))

DeleteFile == \E u \in UserIds, p \in ApiFiles : delete_file(u, p)

RenameFile == \E u \in UserIds, p \in ApiFiles, q \in ApiFiles : rename_file(u, p, q)

CreateCheckpoint == \E u \in UserIds, p \in ApiFiles : create_checkpoint(u, p)

RestoreCheckpoint ==
    \E u \in UserIds, p \in ApiFiles, k \in 1..MaxCheckpointId :
        restore_checkpoint(u, p, k)

DeleteCheckpoint ==
    \E u \in UserIds, p \in ApiFiles, k \in 1..MaxCheckpointId :
        delete_checkpoint(u, p, k)

Next ==
    \/ Tick
    \/ EnsureDbUser
    \/ CreateDirectory
    \/ EnsureDirectory
    \/ DeleteDirectory
    \/ SaveFile
    \/ GetFile
    \/ FilesInDirectory
    \/ DeleteFile
    \/ RenameFile
    \/ CreateCheckpoint
    \/ RestoreCheckpoint
    \/ DeleteCheckpoint

Spec == Init /\ [][Next]_vars

-----------------------------------------------------------------------------
(* The directory store alone: three nested directories, files saved into   *)
(* them and deleted again.                                                 *)

\* '', 'a', 'a/b', and 'a/', another spelling of 'a'.
NestedApiDirs == { <<>>, <<"a">>, <<"a", "/">>, <<"a", "/", "b">> }

\* 'f', 'a/f' and 'a/b/f'.
NestedApiFiles == { <<"f">>, <<"a", "/", "f">>, <<"a", "/", "b", "/", "f">> }

DirEnsureDbUser == \E u \in UserIds : ensure_db_user(u)

DirCreateDirectory == \E u \in UserIds, d \in NestedApiDirs : create_directory(u, d)

DirEnsureDirectory == \E u \in UserIds, d \in NestedApiDirs : ensure_directory(u, d)

DirDeleteDirectory == \E u \in UserIds, d \in NestedApiDirs : delete_directory(u, d)

DirDirExists == \E u \in UserIds, d \in NestedApiDirs : dir_exists(u, d)

DirSaveFile ==
    \E u \in UserIds, p \in NestedApiFiles : save_file(u, p, <<"v">>, UNLIMITED)

DirDeleteFile == \E u \in UserIds, p \in NestedApiFiles : delete_file(u, p)

NextDirectories ==
    \/ DirEnsureDbUser
    \/ DirCreateDirectory
    \/ DirEnsureDirectory
    \/ DirDeleteDirectory
    \/ DirDirExists
    \/ DirSaveFile
    \/ DirDeleteFile

SpecDirectories == Init /\ [][NextDirectories]_vars

-----------------------------------------------------------------------------
(* The file store of one user whose directories '/' and '/a/' exist (the   *)
(* state after ensure_db_user, ensure_directory('') and                    *)
(* ensure_directory('a')).                                                 *)

InitFiles ==
    /\ users = UserIds
    /\ directories = { directory_row(u, d) : u \in UserIds, d \in ApiDirs }
    /\ files = {}
    /\ checkpoints = {}
    /\ remote_checkpoints = {}
    /\ file_id_seq = 0
    /\ checkpoint_id_seq = 0
    /\ remote_id_seq = 0
    /\ now = 1
    /\ last = Called("init", NullId, <<>>, <<>>, NullId, <<>>, "ok", {})
    /\ sessions = [s \in Sessions |-> Idle]

\* Saving, renaming and deleting the files 'f', 'g', 'h' and 'a/f'.
RenSaveFile == \E u \in UserIds, p \in ApiFiles : save_file(u, p, <<"v">>, UNLIMITED)

RenDeleteFile == \E u \in UserIds, p \in ApiFiles : delete_file(u, p)

RenRenameFile ==
    \E u \in UserIds, p \in ApiFiles, q \in ApiFiles : rename_file(u, p, q)

RenFileExists == \E u \in UserIds, p \in ApiFiles : file_exists(u, p)

NextRename ==
    \/ Tick
    \/ RenSaveFile
    \/ RenDeleteFile
    \/ RenRenameFile
    \/ RenFileExists

SpecRename == InitFiles /\ [][NextRename]_vars

\* Versions and pointer checkpoints of the files 'f' and 'a/f'.
CheckpointedApiFiles == { <<"f">>, <<"a", "/", "f">> }

CkSaveFile ==
    \E u \in UserIds, p \in CheckpointedApiFiles : save_file(u, p, <<"v">>, UNLIMITED)

CkDeleteFile == \E u \in UserIds, p \in CheckpointedApiFiles : delete_file(u, p)

CkCreateCheckpoint ==
    \E u \in UserIds, p \in CheckpointedApiFiles : create_checkpoint(u, p)

CkRestoreCheckpoint ==
    \E u \in UserIds, p \in CheckpointedApiFiles, k \in 1..MaxCheckpointId :
        restore_checkpoint(u, p, k)

CkDeleteCheckpoint ==
    \E u \in UserIds, p \in CheckpointedApiFiles, k \in 1..MaxCheckpointId :
        delete_checkpoint(u, p, k)

CkListCheckpoints ==
    \E u \in UserIds, p \in CheckpointedApiFiles : list_checkpoints(u, p)

NextCheckpoints ==
    \/ Tick
    \/ CkSaveFile
    \/ CkDeleteFile
    \/ CkCreateCheckpoint
    \/ CkRestoreCheckpoint
    \/ CkDeleteCheckpoint
    \/ CkListCheckpoints

SpecCheckpoints == InitFiles /\ [][NextCheckpoints]_vars

-----------------------------------------------------------------------------
(* Concurrent callers of ensure_db_user and ensure_directory.  Each call   *)
(* is one INSERT in a transaction of its own: the call begins, the         *)
(* statement executes, the transaction commits.  The store's unique index  *)
(* makes an INSERT wait while another transaction holds an uncommitted row *)
(* of the same key, and shows a transaction the committed rows only.       *)

SessionUserIds == {1}

\* '' and '/' spell the root; 'a' is its child.
SessionApiDirs == { <<>>, <<"/">>, <<"a">> }

\* Two calls insert a row of the same key.
same_row(c, d) ==
    /\ c.op = d.op
    /\ c.user_id = d.user_id
    /\ from_api_dirname(c.path) = from_api_dirname(d.path)

\* Another caller holds an uncommitted row of the key s inserts.
must_wait(s) ==
    \E t \in Sessions \ {s} :
        sessions[t].pc = "pending" /\ same_row(sessions[t], sessions[s])

returned(s, result) ==
    /\ sessions' = [sessions EXCEPT ![s].pc = "returned", ![s].result = result]
    /\ UNCHANGED <<users, directories, files, checkpoints, remote,
                   file_id_seq, checkpoint_id_seq, now, last>>

pending(s) ==
    /\ sessions' = [sessions EXCEPT ![s].pc = "pending"]
    /\ UNCHANGED <<users, directories, files, checkpoints, remote,
                   file_id_seq, checkpoint_id_seq, now, last>>

\* A caller calls op(user_id, path).
session_begin(s, op, user_id, path) ==
    /\ sessions[s].pc \in {"idle", "returned"}
    /\ sessions[s].calls < MaxCalls
    /\ sessions' = [sessions EXCEPT ![s] =
                      [pc |-> "running", op |-> op, user_id |-> user_id,
                       path |-> path, result |-> "ok", inserted |-> FALSE,
                       calls |-> @.calls + 1]]
    /\ UNCHANGED <<users, directories, files, checkpoints, remote,
                   file_id_seq, checkpoint_id_seq, now, last>>

\* ensure_db_user's INSERT: a duplicate is swallowed.
session_ensure_db_user(s) ==
    /\ sessions[s].pc = "running"
    /\ sessions[s].op = "ensure_db_user"
    /\ ~ must_wait(s)
    /\ IF sessions[s].user_id \in users THEN returned(s, "ok") ELSE pending(s)

\* ensure_directory without ignore_unique_violation(): create_directory.
session_create_directory(s) ==
    LET err == directories_insert_error(
                   directory_row(sessions[s].user_id, sessions[s].path))
    IN  /\ sessions[s].pc = "running"
        /\ sessions[s].op = "ensure_directory"
        /\ ~ must_wait(s)
        /\ IF err = "ok" THEN pending(s) ELSE returned(s, err)

\* ensure_directory's INSERT: a unique violation is swallowed, any other
\* IntegrityError is raised.
session_ensure_directory(s) ==
    LET err == directories_insert_error(
                   directory_row(sessions[s].user_id, sessions[s].path))
    IN  /\ sessions[s].pc = "running"
        /\ sessions[s].op = "ensure_directory"
        /\ ~ must_wait(s)
        /\ IF err = "ok"
           THEN pending(s)
           ELSE returned(s, IF err = "IntegrityError(UNIQUE_VIOLATION)"
                            THEN "ok" ELSE err)

\* The transaction of the call commits: its row becomes visible.
session_commit(s) ==
    /\ sessions[s].pc = "pending"
    /\ sessions' = [sessions EXCEPT ![s].pc = "returned", ![s].inserted = TRUE]
    /\ IF sessions[s].op = "ensure_db_user"
       THEN /\ users' = users \cup {sessions[s].user_id}
            /\ UNCHANGED directories
       ELSE /\ directories' = directories
                  \cup {directory_row(sessions[s].user_id, sessions[s].path)}
            /\ UNCHANGED users
    /\ UNCHANGED <<files, checkpoints, remote, file_id_seq, checkpoint_id_seq,
                   now, last>>

SessionBegin ==
    \E s \in Sessions, u \in SessionUserIds :
        \/ session_begin(s, "ensure_db_user", u, <<>>)
        \/ \E d \in SessionApiDirs : session_begin(s, "ensure_directory", u, d)

SessionEnsureDbUser == \E s \in Sessions : session_ensure_db_user(s)

SessionEnsureDirectory == \E s \in Sessions : session_ensure_directory(s)

SessionCommit == \E s \in Sessions : session_commit(s)

NextSessions ==
    \/ SessionBegin
    \/ SessionEnsureDbUser
    \/ SessionEnsureDirectory
    \/ SessionCommit

SpecSessions == Init /\ [][NextSessions]_vars

-----------------------------------------------------------------------------
(* Remote checkpoints (query.py:545-700): rows [id, user_id, path,         *)
(* content, last_modified]; id is a serial, last_modified defaults to      *)
(* now().                                                                  *)

Digits == <<"0", "1", "2", "3", "4", "5", "6", "7", "8", "9">>

\* cast(remote_checkpoints.c.id, Unicode): the decimal text of an id.
RECURSIVE unicode_of(_)
unicode_of(n) ==
    IF n < 10 THEN <<Digits[n + 1]>>
    ELSE unicode_of(n \div 10) \o <<Digits[(n % 10) + 1]>>

\* int(checkpoint_id) of a text of decimal digits.
RECURSIVE int(_)
int(text) ==
    IF text = <<>> THEN 0
    ELSE 10 * int(SubSeq(text, 1, Len(text) - 1))
         + (CHOOSE d \in 0..9 : Digits[d + 1] = text[Len(text)])

\* to_dict of a row of remote_checkpoints; a field the query does not select
\* is NULL.  id_unicode is the id as _remote_checkpoint_default_fields
\* selects it, id the id as latest_remote_checkpoints selects it.
RemoteRecord(pos, id_unicode, id, path, last_modified, content) ==
    [pos |-> pos, id_unicode |-> id_unicode, id |-> id, path |-> path,
     last_modified |-> last_modified, content |-> content]

\* WHERE user_id = .. AND path = from_api_filename(api_path)
remote_at(rows, user_id, api_path) ==
    { r \in rows : r.user_id = user_id /\ r.path = from_api_filename(api_path) }

\* .. AND id = int(checkpoint_id)
remote_single(rows, user_id, api_path, checkpoint_id) ==
    { r \in remote_at(rows, user_id, api_path) : r.id = int(checkpoint_id) }

\* DELETE .. WHERE user_id, path, id; no row deleted: NoSuchCheckpoint.
delete_single_remote_checkpoint(user_id, api_path, checkpoint_id) ==
    LET matched == remote_single(remote_checkpoints, user_id, api_path, checkpoint_id)
    IN  /\ remote_checkpoints' = remote_checkpoints \ matched
        /\ last' = Called("delete_single_remote_checkpoint", user_id, api_path,
                          <<>>, int(checkpoint_id), <<>>,
                          IF matched = {} THEN "NoSuchCheckpoint" ELSE "ok", {})
        /\ UNCHANGED <<users, directories, files, checkpoints, sessions,
                       file_id_seq, checkpoint_id_seq, remote_id_seq, now>>

\* delete_remote_checkpoints that deletes the file of the path as well.
delete_remote_checkpoints_and_file(user_id, api_path) ==
    LET versions == { f \in files : _file_where(f, user_id, api_path) }
    IN  /\ remote_checkpoints' =
               remote_checkpoints \ remote_at(remote_checkpoints, user_id, api_path)
        /\ files' = files \ versions
        /\ checkpoints' = cascade_checkpoints(versions)
        /\ last' = Called("delete_remote_checkpoints", user_id, api_path, <<>>,
                          NullId, <<>>, "ok", {})
        /\ UNCHANGED <<users, directories, sessions,
                       file_id_seq, checkpoint_id_seq, remote_id_seq, now>>

\* DELETE .. WHERE user_id, path.
delete_remote_checkpoints(user_id, api_path) ==
    /\ remote_checkpoints' =
           remote_checkpoints \ remote_at(remote_checkpoints, user_id, api_path)
    /\ last' = Called("delete_remote_checkpoints", user_id, api_path, <<>>,
                      NullId, <<>>, "ok", {})
    /\ UNCHANGED <<users, directories, files, checkpoints, sessions,
                   file_id_seq, checkpoint_id_seq, remote_id_seq, now>>

\* SELECT cast(id), last_modified .. ORDER BY last_modified ASC: any order of
\* the rows in which no row precedes one of an earlier last_modified.
list_remote_checkpoints(user_id, api_path) ==
    LET rows == remote_at(remote_checkpoints, user_id, api_path)
    IN  /\ \E pos \in [rows -> 1..Cardinality(rows)] :
              /\ \A x, y \in rows : x # y => pos[x] # pos[y]
              /\ \A x, y \in rows :
                     pos[x] < pos[y] => x.last_modified <= y.last_modified
              /\ last' = Called("list_remote_checkpoints", user_id, api_path,
                                <<>>, NullId, <<>>, "ok",
                                { RemoteRecord(pos[x], unicode_of(x.id), NullId,
                                               NullStr, x.last_modified, NullStr)
                                  : x \in rows })
        /\ UNCHANGED <<users, directories, files, checkpoints, remote, sessions,
                       file_id_seq, checkpoint_id_seq, now>>

\* move_single_remote_checkpoint whose UPDATE lacks the id condition.
move_single_remote_checkpoint_all(user_id, src_api_path, dest_api_path, checkpoint_id) ==
    LET matched == remote_at(remote_checkpoints, user_id, src_api_path)
    IN  /\ remote_checkpoints' =
               { IF r \in matched
                 THEN [r EXCEPT !.path = from_api_filename(dest_api_path)]
                 ELSE r : r \in remote_checkpoints }
        /\ last' = Called("move_single_remote_checkpoint", user_id, src_api_path,
                          dest_api_path, int(checkpoint_id), <<>>,
                          IF matched = {} THEN "NoSuchCheckpoint" ELSE "ok", {})
        /\ UNCHANGED <<users, directories, files, checkpoints, sessions,
                       file_id_seq, checkpoint_id_seq, remote_id_seq, now>>

\* UPDATE .. SET path = dest WHERE user_id, path = src, id; no row updated:
\* NoSuchCheckpoint.
move_single_remote_checkpoint(user_id, src_api_path, dest_api_path, checkpoint_id) ==
    LET matched == remote_single(remote_checkpoints, user_id, src_api_path,
                                 checkpoint_id)
    IN  /\ remote_checkpoints' =
               { IF r \in matched
                 THEN [r EXCEPT !.path = from_api_filename(dest_api_path)]
                 ELSE r : r \in remote_checkpoints }
        /\ last' = Called("move_single_remote_checkpoint", user_id, src_api_path,
                          dest_api_path, int(checkpoint_id), <<>>,
                          IF matched = {} THEN "NoSuchCheckpoint" ELSE "ok", {})
        /\ UNCHANGED <<users, directories, files, checkpoints, sessions,
                       file_id_seq, checkpoint_id_seq, remote_id_seq, now>>

\* UPDATE .. SET path = dest WHERE user_id, path = src.
move_remote_checkpoints(user_id, src_api_path, dest_api_path) ==
    LET matched == remote_at(remote_checkpoints, user_id, src_api_path)
    IN  /\ remote_checkpoints' =
               { IF r \in matched
                 THEN [r EXCEPT !.path = from_api_filename(dest_api_path)]
                 ELSE r : r \in remote_checkpoints }
        /\ last' = Called("move_remote_checkpoints", user_id, src_api_path,
                          dest_api_path, NullId, <<>>, "ok", {})
        /\ UNCHANGED <<users, directories, files, checkpoints, sessions,
                       file_id_seq, checkpoint_id_seq, remote_id_seq, now>>

\* SELECT content .. WHERE user_id, path, id; .first() is None:
\* NoSuchCheckpoint.
get_remote_checkpoint(user_id, api_path, checkpoint_id) ==
    LET matched == remote_single(remote_checkpoints, user_id, api_path, checkpoint_id)
    IN  /\ last' = Called("get_remote_checkpoint", user_id, api_path, <<>>,
                          int(checkpoint_id), <<>>,
                          IF matched = {} THEN "NoSuchCheckpoint" ELSE "ok",
                          { RemoteRecord(0, NullStr, NullId, NullStr, NullId,
                                         r.content) : r \in matched })
        /\ UNCHANGED <<users, directories, files, checkpoints, remote, sessions,
                       file_id_seq, checkpoint_id_seq, now>>

\* INSERT (user_id, path, content) RETURNING cast(id), last_modified.
save_remote_checkpoint(user_id, api_path, content) ==
    LET id == remote_id_seq + 1
    IN  /\ remote_id_seq < MaxRemoteId
        /\ remote_checkpoints' = remote_checkpoints \cup
               {[id |-> id, user_id |-> user_id,
                 path |-> from_api_filename(api_path), content |-> content,
                 last_modified |-> now]}
        /\ remote_id_seq' = id
        /\ last' = Called("save_remote_checkpoint", user_id, api_path, <<>>,
                          NullId, content, "ok",
                          {RemoteRecord(0, unicode_of(id), NullId, NullStr, now,
                                        NullStr)})
        /\ UNCHANGED <<users, directories, files, checkpoints, sessions,
                       file_id_seq, checkpoint_id_seq, now>>

\* DELETE .. WHERE user_id.
purge_remote_checkpoints(user_id) ==
    /\ remote_checkpoints' = { r \in remote_checkpoints : r.user_id # user_id }
    /\ last' = Called("purge_remote_checkpoints", user_id, <<>>, <<>>, NullId,
                      <<>>, "ok", {})
    /\ UNCHANGED <<users, directories, files, checkpoints, sessions,
                   file_id_seq, checkpoint_id_seq, remote_id_seq, now>>

\* latest_remote_checkpoints that keeps, of every path, the row ORDER BY
\* path, last_modified ASC puts first.
latest_remote_checkpoints_asc(user_id) ==
    LET rows == { r \in remote_checkpoints : r.user_id = user_id }
        paths == { r.path : r \in rows }
    IN  /\ \E first \in [paths -> rows] :
              /\ \A p \in paths :
                     /\ first[p].path = p
                     /\ \A r \in rows :
                            r.path = p => r.last_modified >= first[p].last_modified
              /\ last' = Called("latest_remote_checkpoints", user_id, <<>>, <<>>,
                                NullId, <<>>, "ok",
                                { RemoteRecord(0, NullStr, first[p].id, p, NullId,
                                               NullStr) : p \in paths })
        /\ UNCHANGED <<users, directories, files, checkpoints, remote, sessions,
                       file_id_seq, checkpoint_id_seq, now>>

\* SELECT DISTINCT ON (path) id, path .. WHERE user_id ORDER BY path,
\* last_modified DESC: of every path the row the order puts first, which is
\* any of the rows of the greatest last_modified.
latest_remote_checkpoints(user_id) ==
    LET rows == { r \in remote_checkpoints : r.user_id = user_id }
        paths == { r.path : r \in rows }
    IN  /\ \E first \in [paths -> rows] :
              /\ \A p \in paths :
                     /\ first[p].path = p
                     /\ \A r \in rows :
                            r.path = p => r.last_modified <= first[p].last_modified
              /\ last' = Called("latest_remote_checkpoints", user_id, <<>>, <<>>,
                                NullId, <<>>, "ok",
                                { RemoteRecord(0, NullStr, first[p].id, p, NullId,
                                               NullStr) : p \in paths })
        /\ UNCHANGED <<users, directories, files, checkpoints, remote, sessions,
                       file_id_seq, checkpoint_id_seq, now>>

-----------------------------------------------------------------------------
(* The remote checkpoints of two users at the paths 'f' and 'g', from the  *)
(* empty table: saved, moved, deleted, purged, and the latest of every     *)
(* path read.                                                              *)

RemoteUserIds == {1, 2}

RemoteApiFiles == { <<"f">>, <<"g">> }

\* The texts a caller passes as checkpoint_id: the ids the store has handed
\* out, as save_remote_checkpoint returned them.
RemoteCheckpointIds == { unicode_of(k) : k \in 1..MaxRemoteId }

RemSaveRemoteCheckpoint ==
    \E u \in RemoteUserIds, p \in RemoteApiFiles :
        save_remote_checkpoint(u, p, <<"v">>)

RemDeleteRemoteCheckpoints ==
    \E u \in RemoteUserIds, p \in RemoteApiFiles : delete_remote_checkpoints(u, p)

RemMoveRemoteCheckpoints ==
    \E u \in RemoteUserIds, p \in RemoteApiFiles, q \in RemoteApiFiles :
        move_remote_checkpoints(u, p, q)

RemPurgeRemoteCheckpoints == \E u \in RemoteUserIds : purge_remote_checkpoints(u)

RemLatestRemoteCheckpoints == \E u \in RemoteUserIds : latest_remote_checkpoints(u)

NextRemote ==
    \/ Tick
    \/ RemSaveRemoteCheckpoint
    \/ RemDeleteRemoteCheckpoints
    \/ RemMoveRemoteCheckpoints
    \/ RemPurgeRemoteCheckpoints
    \/ RemLatestRemoteCheckpoints

SpecRemote == Init /\ [][NextRemote]_vars

-----------------------------------------------------------------------------
(* Saving with and without a size limit, into the directories '/' and      *)
(* '/a/' that exist and into '/b/' that does not.                          *)

SavedApiFiles == { <<"f">>, <<"a", "/", "f">>, <<"b", "/", "f">> }

SvSaveFile ==
    \E u \in UserIds, p \in SavedApiFiles, c \in Contents, m \in MaxSizes :
        save_file(u, p, c, m)

SvDeleteFile == \E u \in UserIds, p \in SavedApiFiles : delete_file(u, p)

NextSave ==
    \/ Tick
    \/ SvSaveFile
    \/ SvDeleteFile

SpecSave == InitFiles /\ [][NextSave]_vars

-----------------------------------------------------------------------------
(* purge_user (query.py:62-74): DELETE FROM files WHERE user_id, DELETE     *)
(* FROM directories WHERE user_id, DELETE FROM users WHERE id.  The        *)
(* checkpoints of the deleted versions go with them (ON DELETE CASCADE);   *)
(* no statement of purge_user names remote_checkpoints.                    *)

purge_user(user_id) ==
    LET deleted == { f \in files : f.user_id = user_id }
    IN  /\ files' = files \ deleted
        /\ checkpoints' = cascade_checkpoints(deleted)
        /\ directories' = { d \in directories : d.user_id # user_id }
        /\ users' = users \ {user_id}
        /\ last' = Called("purge_user", user_id, <<>>, <<>>, NullId, <<>>, "ok", {})
        /\ UNCHANGED <<remote, sessions, file_id_seq, checkpoint_id_seq, now>>

\* A user's store filled, then purged: files, pointer checkpoints and
\* snapshots of 'f' and 'a/f'.
PurgedApiFiles == { <<"f">>, <<"a", "/", "f">> }

PuEnsureDbUser == \E u \in UserIds : ensure_db_user(u)

PuEnsureDirectory == \E u \in UserIds, d \in ApiDirs : ensure_directory(u, d)

PuSaveFile ==
    \E u \in UserIds, p \in PurgedApiFiles : save_file(u, p, <<"v">>, UNLIMITED)

PuCreateCheckpoint ==
    \E u \in UserIds, p \in PurgedApiFiles : create_checkpoint(u, p)

PuSaveRemoteCheckpoint ==
    \E u \in UserIds, p \in PurgedApiFiles : save_remote_checkpoint(u, p, <<"v">>)

PuPurgeUser == \E u \in UserIds : purge_user(u)

PuPurgeRemoteCheckpoints == \E u \in UserIds : purge_remote_checkpoints(u)

NextPurge ==
    \/ PuEnsureDbUser
    \/ PuEnsureDirectory
    \/ PuSaveFile
    \/ PuCreateCheckpoint
    \/ PuSaveRemoteCheckpoint
    \/ PuPurgeUser
    \/ PuPurgeRemoteCheckpoints

SpecPurge == InitFiles /\ [][NextPurge]_vars

-----------------------------------------------------------------------------
(* A store that holds MaxListed versions and MaxListed checkpoints: the    *)
(* state after that many calls of save_file and then of create_checkpoint  *)
(* on 'f' and 'a/f' ('f' saved first), all before the clock advanced.  A   *)
(* checkpoint points to the latest version of its path, which is any       *)
(* version of the path while their created_at are equal.                   *)

ListedIds == 1..MaxListed

InitListing ==
    /\ users = UserIds
    /\ directories = { directory_row(u, d) : u \in UserIds, d \in ApiDirs }
    /\ \E u \in UserIds :
       \E path \in [ListedIds -> CheckpointedApiFiles] :
       \E file_id \in [ListedIds -> ListedIds] :
           /\ path[1] = <<"f">>
           /\ files = { [id |-> i, name |-> split_api_filepath(path[i]).name,
                         user_id |-> u,
                         parent_name |-> split_api_filepath(path[i]).directory,
                         content |-> <<"v">>, created_at |-> 1]
                        : i \in ListedIds }
           /\ checkpoints = { [id |-> k, file_id |-> file_id[k], created_at |-> 1]
                              : k \in ListedIds }
    /\ remote_checkpoints = {}
    /\ file_id_seq = MaxListed
    /\ checkpoint_id_seq = MaxListed
    /\ remote_id_seq = 0
    /\ now = 1
    /\ last = Called("init", NullId, <<>>, <<>>, NullId, <<>>, "ok", {})
    /\ sessions = [s \in Sessions |-> Idle]

LsListCheckpoints ==
    \E u \in UserIds, p \in CheckpointedApiFiles : list_checkpoints(u, p)

LsRestoreCheckpoint ==
    \E u \in UserIds, p \in CheckpointedApiFiles, k \in ListedIds :
        restore_checkpoint(u, p, k)

LsDeleteCheckpoint ==
    \E u \in UserIds, p \in CheckpointedApiFiles, k \in ListedIds :
        delete_checkpoint(u, p, k)

NextListing ==
    \/ Tick
    \/ LsListCheckpoints
    \/ LsRestoreCheckpoint
    \/ LsDeleteCheckpoint

SpecListing == InitListing /\ [][NextListing]_vars

-----------------------------------------------------------------------------
(* One user's remote checkpoints of the paths 'f' and 'g': saved, read,    *)
(* listed, deleted, moved one by one or path by path.                      *)

SnSaveRemoteCheckpoint ==
    \E u \in UserIds, p \in RemoteApiFiles, c \in Contents :
        save_remote_checkpoint(u, p, c)

SnGetRemoteCheckpoint ==
    \E u \in UserIds, p \in RemoteApiFiles, k \in RemoteCheckpointIds :
        get_remote_checkpoint(u, p, k)

SnListRemoteCheckpoints ==
    \E u \in UserIds, p \in RemoteApiFiles : list_remote_checkpoints(u, p)

SnDeleteSingleRemoteCheckpoint ==
    \E u \in UserIds, p \in RemoteApiFiles, k \in RemoteCheckpointIds :
        delete_single_remote_checkpoint(u, p, k)

SnMoveSingleRemoteCheckpoint ==
    \E u \in UserIds, p \in RemoteApiFiles, q \in RemoteApiFiles,
       k \in RemoteCheckpointIds :
        move_single_remote_checkpoint(u, p, q, k)

SnMoveRemoteCheckpoints ==
    \E u \in UserIds, p \in RemoteApiFiles, q \in RemoteApiFiles :
        move_remote_checkpoints(u, p, q)

NextSnapshots ==
    \/ Tick
    \/ SnSaveRemoteCheckpoint
    \/ SnGetRemoteCheckpoint
    \/ SnListRemoteCheckpoints
    \/ SnDeleteSingleRemoteCheckpoint
    \/ SnMoveSingleRemoteCheckpoint
    \/ SnMoveRemoteCheckpoints

SpecSnapshots == Init /\ [][NextSnapshots]_vars

-----------------------------------------------------------------------------
(* get_directory (query.py:208-253). *)

\* SELECT name FROM directories WHERE _is_in_directory.
directories_in_directory(user_id, db_dirname) ==
    { Record(0, NullId, d.name, NullStr, NullId, NullStr) :
        d \in { e \in directories : _is_in_directory(e, user_id, db_dirname) } }

\* NoSuchDirectory unless _dir_exists; with content the records of
\* files_in_directory (one per file name, parent_name not NULL) and of
\* directories_in_directory (parent_name not selected), without content
\* neither.
get_directory(user_id, api_dirname, content) ==
    LET db_dirname == from_api_dirname(api_dirname)
        matching == { f \in files : _is_in_directory(f, user_id, db_dirname) }
    IN  /\ IF ~ _dir_exists(directories, user_id, db_dirname)
           THEN last' = Called("get_directory", user_id, api_dirname, <<>>,
                               NullId, <<>>, "NoSuchDirectory", {})
           ELSE IF content
           THEN \E kept \in SUBSET matching :
                    /\ \A f \in matching : \E g \in kept : g.name = f.name
                    /\ \A f, g \in kept : g.name = f.name => f = g
                    /\ \A g \in kept : \A f \in matching :
                           g.name = f.name => g.created_at <= f.created_at
                    /\ last' = Called("get_directory", user_id, api_dirname,
                                      <<>>, NullId, <<>>, "ok",
                                      { file_record(f, FALSE) : f \in kept }
                                      \cup directories_in_directory(user_id,
                                                                    db_dirname))
           ELSE last' = Called("get_directory", user_id, api_dirname, <<>>,
                               NullId, <<>>, "ok", {})
        /\ UNCHANGED <<users, directories, files, checkpoints, remote, sessions,
                       file_id_seq, checkpoint_id_seq, now>>

\* Directories '', 'a', 'a/b' and the files 'f', 'a/f', 'a/b/f' created,
\* deleted and listed.
GdEnsureDbUser == \E u \in UserIds : ensure_db_user(u)

GdEnsureDirectory == \E u \in UserIds, d \in NestedApiDirs : ensure_directory(u, d)

GdDeleteDirectory == \E u \in UserIds, d \in NestedApiDirs : delete_directory(u, d)

GdSaveFile ==
    \E u \in UserIds, p \in NestedApiFiles : save_file(u, p, <<"v">>, UNLIMITED)

GdDeleteFile == \E u \in UserIds, p \in NestedApiFiles : delete_file(u, p)

GdGetDirectory == \E u \in UserIds, d \in NestedApiDirs : get_directory(u, d, TRUE)

NextGetDirectory ==
    \/ GdEnsureDbUser
    \/ GdEnsureDirectory
    \/ GdDeleteDirectory
    \/ GdSaveFile
    \/ GdDeleteFile
    \/ GdGetDirectory

SpecGetDirectory == Init /\ [][NextGetDirectory]_vars

-----------------------------------------------------------------------------
(* The file 'f' with its versions and pointer checkpoints, and the remote  *)
(* checkpoints of 'f', side by side in the store of one user.              *)

InFile == <<"f">>

InSaveFile == \E u \in UserIds : save_file(u, InFile, <<"v">>, UNLIMITED)

InDeleteFile == \E u \in UserIds : delete_file(u, InFile)

InRenameFile == \E u \in UserIds : rename_file(u, InFile, <<"g">>)

InCreateCheckpoint == \E u \in UserIds : create_checkpoint(u, InFile)

InRestoreCheckpoint ==
    \E u \in UserIds, k \in 1..MaxCheckpointId : restore_checkpoint(u, InFile, k)

InDeleteCheckpoint ==
    \E u \in UserIds, k \in 1..MaxCheckpointId : delete_checkpoint(u, InFile, k)

InSaveRemoteCheckpoint ==
    \E u \in UserIds : save_remote_checkpoint(u, InFile, <<"w", "w">>)

InGetRemoteCheckpoint ==
    \E u \in UserIds, k \in RemoteCheckpointIds : get_remote_checkpoint(u, InFile, k)

InListRemoteCheckpoints == \E u \in UserIds : list_remote_checkpoints(u, InFile)

InDeleteSingleRemoteCheckpoint ==
    \E u \in UserIds, k \in RemoteCheckpointIds :
        delete_single_remote_checkpoint(u, InFile, k)

InDeleteRemoteCheckpoints == \E u \in UserIds : delete_remote_checkpoints(u, InFile)

InMoveSingleRemoteCheckpoint ==
    \E u \in UserIds, k \in RemoteCheckpointIds :
        move_single_remote_checkpoint(u, InFile, <<"g">>, k)

InMoveRemoteCheckpoints ==
    \E u \in UserIds : move_remote_checkpoints(u, <<"g">>, InFile)

InPurgeRemoteCheckpoints == \E u \in UserIds : purge_remote_checkpoints(u)

InLatestRemoteCheckpoints == \E u \in UserIds : latest_remote_checkpoints(u)

NextIndependent ==
    \/ InSaveFile
    \/ InDeleteFile
    \/ InRenameFile
    \/ InCreateCheckpoint
    \/ InRestoreCheckpoint
    \/ InDeleteCheckpoint
    \/ InSaveRemoteCheckpoint
    \/ InGetRemoteCheckpoint
    \/ InListRemoteCheckpoints
    \/ InDeleteSingleRemoteCheckpoint
    \/ InDeleteRemoteCheckpoints
    \/ InMoveSingleRemoteCheckpoint
    \/ InMoveRemoteCheckpoints
    \/ InPurgeRemoteCheckpoints
    \/ InLatestRemoteCheckpoints

SpecIndependent == InitFiles /\ [][NextIndependent]_vars

-----------------------------------------------------------------------------
(* Two users whose root directories exist, each working on the same path   *)
(* 'f' (renamed to 'g') in its own store, and passing checkpoint ids that   *)
(* may be the other user's.  What a user saves tells whose it is.          *)

TenantIds == {1, 2}

TenantFile == <<"f">>

TenantContent(u) == IF u = 1 THEN <<"v">> ELSE <<"w", "w">>

InitTenants ==
    /\ users = TenantIds
    /\ directories = { directory_row(u, <<>>) : u \in TenantIds }
    /\ files = {}
    /\ checkpoints = {}
    /\ remote_checkpoints = {}
    /\ file_id_seq = 0
    /\ checkpoint_id_seq = 0
    /\ remote_id_seq = 0
    /\ now = 1
    /\ last = Called("init", NullId, <<>>, <<>>, NullId, <<>>, "ok", {})
    /\ sessions = [s \in Sessions |-> Idle]

TnSaveFile ==
    \E u \in TenantIds : save_file(u, TenantFile, TenantContent(u), UNLIMITED)

TnGetFile == \E u \in TenantIds : get_file(u, TenantFile, TRUE)

TnGetDirectory == \E u \in TenantIds : get_directory(u, <<>>, TRUE)

TnDeleteFile == \E u \in TenantIds : delete_file(u, TenantFile)

TnRenameFile == \E u \in TenantIds : rename_file(u, TenantFile, <<"g">>)

TnCreateCheckpoint == \E u \in TenantIds : create_checkpoint(u, TenantFile)

TnListCheckpoints == \E u \in TenantIds : list_checkpoints(u, TenantFile)

TnRestoreCheckpoint ==
    \E u \in TenantIds, k \in 1..MaxCheckpointId :
        restore_checkpoint(u, TenantFile, k)

TnDeleteCheckpoint ==
    \E u \in TenantIds, k \in 1..MaxCheckpointId :
        delete_checkpoint(u, TenantFile, k)

TnSaveRemoteCheckpoint ==
    \E u \in TenantIds : save_remote_checkpoint(u, TenantFile, TenantContent(u))

TnGetRemoteCheckpoint ==
    \E u \in TenantIds, k \in RemoteCheckpointIds :
        get_remote_checkpoint(u, TenantFile, k)

TnListRemoteCheckpoints ==
    \E u \in TenantIds : list_remote_checkpoints(u, TenantFile)

TnDeleteSingleRemoteCheckpoint ==
    \E u \in TenantIds, k \in RemoteCheckpointIds :
        delete_single_remote_checkpoint(u, TenantFile, k)

TnDeleteRemoteCheckpoints ==
    \E u \in TenantIds : delete_remote_checkpoints(u, TenantFile)

TnMoveSingleRemoteCheckpoint ==
    \E u \in TenantIds, k \in RemoteCheckpointIds :
        move_single_remote_checkpoint(u, TenantFile, <<"g">>, k)

TnMoveRemoteCheckpoints ==
    \E u \in TenantIds : move_remote_checkpoints(u, <<"g">>, TenantFile)

TnPurgeRemoteCheckpoints == \E u \in TenantIds : purge_remote_checkpoints(u)

TnLatestRemoteCheckpoints == \E u \in TenantIds : latest_remote_checkpoints(u)

NextTenants ==
    \/ TnSaveFile
    \/ TnGetFile
    \/ TnGetDirectory
    \/ TnDeleteFile
    \/ TnRenameFile
    \/ TnCreateCheckpoint
    \/ TnListCheckpoints
    \/ TnRestoreCheckpoint
    \/ TnDeleteCheckpoint
    \/ TnSaveRemoteCheckpoint
    \/ TnGetRemoteCheckpoint
    \/ TnListRemoteCheckpoints
    \/ TnDeleteSingleRemoteCheckpoint
    \/ TnDeleteRemoteCheckpoints
    \/ TnMoveSingleRemoteCheckpoint
    \/ TnMoveRemoteCheckpoints
    \/ TnPurgeRemoteCheckpoints
    \/ TnLatestRemoteCheckpoints

SpecTenants == InitTenants /\ [][NextTenants]_vars

-----------------------------------------------------------------------------
(* Properties. *)

\* This step is a call of op (every call leaves the clock alone; Tick leaves
\* last alone).
Calls(op) == last'.op = op /\ now' = now

\* The version rows stored under the key (user_id, directory of api_path,
\* name of api_path).
versions_of(rows, user_id, api_path) ==
    LET split == split_api_filepath(api_path)
    IN  { f \in rows : /\ f.user_id = user_id
                       /\ f.parent_name = split.directory
                       /\ f.name = split.name }

\* C1: last write wins.  A get_file(p, include_content=True) that follows a
\* successful save_file of content c on p returns c, also when an earlier
\* version of p carries the same created_at.
C1_LastWriteWins ==
    [][ ( /\ last.op = "save_file" /\ last.result = "ok"
          /\ Calls("get_file")
          /\ last'.user_id = last.user_id /\ last'.path = last.path )
        => /\ last'.result = "ok"
           /\ \A r \in last'.ret : r.content # NullStr => r.content = last.content
      ]_vars

\* The content of the version row that checkpoint checkpoint_id references.
checkpointed_content(checkpoint_id) ==
    { f.content : f \in { g \in files : \E c \in checkpoints :
                            c.id = checkpoint_id /\ c.file_id = g.id } }

\* C2: a get_file(p, include_content=True) that follows a successful
\* restore_checkpoint(p, k) returns the content of the version k references.
C2_RestoreThenGet ==
    [][ ( /\ last.op = "restore_checkpoint" /\ last.result = "ok"
          /\ Calls("get_file")
          /\ last'.user_id = last.user_id /\ last'.path = last.path )
        => /\ last'.result = "ok"
           /\ \A r \in last'.ret :
                  r.content # NullStr
                      => r.content \in checkpointed_content(last.checkpoint_id)
      ]_vars

\* C3: after a successful rename_file(old, new) of a file that has versions,
\* the rows under the new key are exactly the rows that were under the old
\* key (renamed), and no row is left under the old key.
C3_RenameMovesExactlyOldVersions ==
    [][ ( /\ Calls("rename_file") /\ last'.result = "ok"
          /\ versions_of(files, last'.user_id, last'.path) # {} )
        => LET u == last'.user_id
               new_name == split_api_filepath(last'.path2).name
           IN  /\ versions_of(files', u, last'.path2)
                    = { [f EXCEPT !.name = new_name] :
                          f \in versions_of(files, u, last'.path) }
               /\ last'.path # last'.path2 => versions_of(files', u, last'.path) = {}
      ]_vars

\* C4: rename_file(old, new) of a file that has versions leaves every row
\* that is not under the old key as it was.
C4_RenameFrame ==
    [][ ( /\ Calls("rename_file")
          /\ versions_of(files, last'.user_id, last'.path) # {} )
        => \A f \in files \ versions_of(files, last'.user_id, last'.path) :
               f \in files'
      ]_vars

\* C5 as stated: rename_file(old, new) with a version at the destination key
\* fails with FileExists and leaves table files unchanged.
C5_RenameToExistingRaisesFileExists ==
    [][ ( Calls("rename_file")
          /\ versions_of(files, last'.user_id, last'.path2) # {} )
        => /\ last'.result = "FileExists"
           /\ files' = files
      ]_vars

\* C5, amended: with a version at the destination key rename_file leaves table
\* files unchanged; it fails with FileExists when old and new are in the same
\* parent directory, and with ValueError when they are not.
C5_RenameToExisting ==
    [][ ( Calls("rename_file")
          /\ versions_of(files, last'.user_id, last'.path2) # {} )
        => /\ last'.result =
                  IF split_api_filepath(last'.path).directory
                         = split_api_filepath(last'.path2).directory
                  THEN "FileExists" ELSE "ValueError"
           /\ files' = files
      ]_vars

\* A rename of a file that has versions onto another file that has versions
\* was refused with FileExists.
C5_Witness ==
    /\ last.op = "rename_file" /\ last.result = "FileExists"
    /\ last.path # last.path2
    /\ versions_of(files, last.user_id, last.path) # {}
    /\ versions_of(files, last.user_id, last.path2) # {}

\* C6: files_in_directory(d) returns one record per (parent, name) in d, and
\* that record carries the greatest created_at of the key's versions.
C6_ListingReturnsLatestVersions ==
    last.op = "files_in_directory"
        => LET in_dir == { f \in files : /\ f.user_id = last.user_id
                                         /\ f.parent_name = last.path }
           IN  /\ \A f \in in_dir :
                      Cardinality({ r \in last.ret : r.name = f.name }) = 1
               /\ \A r \in last.ret :
                      /\ \E f \in in_dir : f.name = r.name
                      /\ r.created_at
                           = Max({ f.created_at : f \in { g \in in_dir : g.name = r.name } })

\* Directory db_dirname of user_id has a file version or a subdirectory.
has_children(user_id, db_dirname) ==
    \/ \E f \in files : f.user_id = user_id /\ f.parent_name = db_dirname
    \/ \E d \in directories : d.user_id = user_id /\ d.parent_name = db_dirname

\* C7: delete_directory(d) on a directory with a file version or a
\* subdirectory fails with DirectoryNotEmpty and removes nothing; on an
\* existing directory without children it succeeds and dir_exists(d) is false
\* afterwards.
C7_DeleteDirectory ==
    [][ Calls("delete_directory")
        => LET u == last'.user_id
               d == from_api_dirname(last'.path)
           IN  IF has_children(u, d)
               THEN /\ last'.result = "DirectoryNotEmpty"
                    /\ directories' = directories
                    /\ files' = files
               ELSE _dir_exists(directories, u, d)
                        => /\ last'.result = "ok"
                           /\ ~ _dir_exists(directories', u, d)
      ]_vars

\* A delete_directory was refused because of a file in the directory.
C7_Witness ==
    /\ last.op = "delete_directory" /\ last.result = "DirectoryNotEmpty"
    /\ \E f \in files : /\ f.user_id = last.user_id
                        /\ f.parent_name = from_api_dirname(last.path)

\* C8: delete_file(p) on a path with versions removes them all: file_exists(p)
\* is false afterwards and no checkpoint that referenced one of them can be
\* listed or restored under any path; on a path without versions it fails
\* with NoSuchFile and changes neither files nor checkpoints.
C8_DeleteFile ==
    [][ Calls("delete_file")
        => LET u == last'.user_id
               had == versions_of(files, u, last'.path)
               lost == { c \in checkpoints : \E f \in had : c.file_id = f.id }
           IN  IF had = {}
               THEN /\ last'.result = "NoSuchFile"
                    /\ files' = files
                    /\ checkpoints' = checkpoints
               ELSE /\ last'.result = "ok"
                    /\ versions_of(files', u, last'.path) = {}
                    /\ ~ file_exists_in(files', u, last'.path)
                    /\ \A c \in lost : \A q \in ApiFiles :
                           ~ \E x \in checkpoints_of(checkpoints', files', u, q) :
                                 x[1].id = c.id
      ]_vars

\* A delete_file succeeded after two versions were saved and a checkpoint was
\* taken, and neither a version nor a checkpoint is left.
C8_Witness ==
    /\ last.op = "delete_file" /\ last.result = "ok"
    /\ file_id_seq >= 2 /\ files = {}
    /\ checkpoint_id_seq >= 1 /\ checkpoints = {}

\* C9: create_checkpoint(p) on a path without versions fails with NoSuchFile
\* and leaves table checkpoints unchanged; on a path with versions it adds one
\* checkpoint, of the version get_file(p) returns.
C9_CreateCheckpoint ==
    [][ Calls("create_checkpoint")
        => LET latest == _select_file(files, last'.user_id, last'.path)
           IN  IF latest = {}
               THEN /\ last'.result = "NoSuchFile"
                    /\ checkpoints' = checkpoints
               ELSE /\ last'.result = "ok"
                    /\ \E c \in checkpoints' \ checkpoints :
                           /\ checkpoints' = checkpoints \cup {c}
                           /\ \E f \in latest : c.file_id = f.id
      ]_vars

ensured_same(s, t) ==
    /\ s # t
    /\ sessions[s].pc = "returned" /\ sessions[t].pc = "returned"
    /\ sessions[s].op = "ensure_directory"
    /\ same_row(sessions[s], sessions[t])
    /\ sessions[s].result # "IntegrityError(FOREIGN_KEY_VIOLATION)"
    /\ sessions[t].result # "IntegrityError(FOREIGN_KEY_VIOLATION)"

C12_LatestRemoteCheckpoints ==
    [][ Calls("latest_remote_checkpoints")
        => LET owned == { r \in remote_checkpoints : r.user_id = last'.user_id }
           IN  /\ { x.path : x \in last'.ret } = { r.path : r \in owned }
               /\ \A x, y \in last'.ret : x.path = y.path => x = y
               /\ \A x \in last'.ret :
                      \E r \in owned :
                          /\ r.id = x.id /\ r.path = x.path
                          /\ \A q \in owned :
                                 q.path = x.path
                                 => q.last_modified <= r.last_modified
      ]_vars

\* latest_remote_checkpoints returned the later of two snapshots of a path.
C12_Witness ==
    /\ last.op = "latest_remote_checkpoints"
    /\ \E x \in last.ret, r \in remote_checkpoints, q \in remote_checkpoints :
           /\ r.user_id = last.user_id /\ q.user_id = last.user_id
           /\ r.path = x.path /\ q.path = x.path
           /\ r.id = x.id /\ q.id < r.id /\ q.last_modified < r.last_modified

\* C13 as claimed: save_file raises FileTooLarge and inserts no row when
\* max_size_bytes is not UNLIMITED and the content is longer; otherwise it
\* inserts exactly one new row and every row there was stays as it was.
C13_SaveFileInsertsUnlessTooLarge ==
    [][ \A u \in UserIds, p \in SavedApiFiles, c \in Contents, m \in MaxSizes :
          save_file(u, p, c, m)
          => IF m # UNLIMITED /\ Len(c) > m
             THEN last'.result = "FileTooLarge" /\ files' = files
             ELSE /\ last'.result = "ok"
                  /\ \E row \in files' \ files : files' = files \cup {row}
      ]_vars

\* C13: save_file raises FileTooLarge and inserts no row when max_size_bytes
\* is not UNLIMITED and the content is longer; otherwise, when the file's
\* directory exists for the user, it inserts exactly one new row and every
\* row there was stays as it was; when the directory does not exist the
\* store's IntegrityError comes through and no row is inserted.
C13_SaveFile ==
    [][ \A u \in UserIds, p \in SavedApiFiles, c \in Contents, m \in MaxSizes :
          save_file(u, p, c, m)
          => IF m # UNLIMITED /\ Len(c) > m
             THEN last'.result = "FileTooLarge" /\ files' = files
             ELSE IF _dir_exists(directories, u, split_api_filepath(p).directory)
             THEN /\ last'.result = "ok"
                  /\ \E row \in files' \ files :
                         /\ files' = files \cup {row}
                         /\ row.content = c
                         /\ _file_where(row, u, p)
             ELSE /\ last'.result = "IntegrityError(FOREIGN_KEY_VIOLATION)"
                  /\ files' = files
      ]_vars

\* A save under a limit the content exceeds was refused while a version saved
\* before it is still there.
C13_Witness ==
    /\ last.op = "save_file"
    /\ last.result = "FileTooLarge"
    /\ Len(last.content) > 1
    /\ \E f \in files : _file_where(f, last.user_id, last.path)

\* C14: after purge_user(user) nothing the user owned remains: no row of
\* users, no directory, no file version, no pointer checkpoint of one of the
\* user's versions, and no remote checkpoint of that user_id.
C14_PurgeUser ==
    [][ Calls("purge_user")
        => LET u == last'.user_id
               versions == { f.id : f \in { g \in files : g.user_id = u } }
           IN  /\ u \notin users'
               /\ ~ \E d \in directories' : d.user_id = u
               /\ ~ \E f \in files' : f.user_id = u
               /\ ~ \E c \in checkpoints' : c.file_id \in versions
               /\ ~ \E r \in remote_checkpoints' : r.user_id = u
      ]_vars

\* The version checkpoint_id points to, when it is a version of api_path of
\* user_id.
checkpointed_version(user_id, api_path, checkpoint_id) ==
    { f \in files :
        /\ _file_where(f, user_id, api_path)
        /\ \E c \in checkpoints : c.id = checkpoint_id /\ c.file_id = f.id }

\* C15: restore_checkpoint(user, p, k) adds and removes no row of files or
\* checkpoints and changes no content or name.  When k points to a version
\* of p of the user, the one change is that this version's created_at becomes
\* now(); when there is no k or its version is not one of (user, p), it raises
\* NoSuchFile and changes nothing.
C15_RestoreCheckpointFrame ==
    [][ Calls("restore_checkpoint")
        => LET target == checkpointed_version(last'.user_id, last'.path,
                                              last'.checkpoint_id)
           IN  /\ checkpoints' = checkpoints
               /\ IF target = {}
                  THEN last'.result = "NoSuchFile" /\ files' = files
                  ELSE /\ last'.result = "ok"
                       /\ Cardinality(target) = 1
                       /\ files' = (files \ target)
                             \cup { [f EXCEPT !.created_at = now] : f \in target }
      ]_vars

\* A restore moved the checkpointed version's created_at to now, past the
\* checkpoint's own, while the file has another version.
C15_Witness ==
    /\ last.op = "restore_checkpoint"
    /\ last.result = "ok"
    /\ \E f \in checkpointed_version(last.user_id, last.path, last.checkpoint_id) :
           /\ f.created_at = now
           /\ \E c \in checkpoints : c.file_id = f.id /\ c.created_at < now
           /\ \E g \in files : g.id # f.id /\ _file_where(g, last.user_id, last.path)

\* The checkpoints whose version is a version of api_path of user_id.
checkpoints_at(user_id, api_path) ==
    { c \in checkpoints :
        \E f \in files : f.id = c.file_id /\ _file_where(f, user_id, api_path) }

\* created_at of the version the checkpoint of this id points to.
version_created_at(checkpoint_id) ==
    LET c == CHOOSE c \in checkpoints : c.id = checkpoint_id
    IN  (CHOOSE f \in files : f.id = c.file_id).created_at

\* C16: list_checkpoints(user, p) returns exactly the checkpoints whose
\* version is a version of p of the user, once each, in an order in which the
\* versions' created_at never increase; a delete_checkpoint(user, p, k) that
\* succeeds removes checkpoint k and leaves every file version and every
\* other checkpoint as it was.
C16_ListAndDeleteCheckpoint ==
    [][ /\ Calls("list_checkpoints")
           => LET expected == checkpoints_at(last'.user_id, last'.path)
              IN  /\ { x.id : x \in last'.ret } = { c.id : c \in expected }
                  /\ Cardinality(last'.ret) = Cardinality(expected)
                  /\ { x.pos : x \in last'.ret } = 1..Cardinality(expected)
                  /\ \A x \in last'.ret :
                         \E c \in expected : c.id = x.id /\ c.created_at = x.created_at
                  /\ \A x, y \in last'.ret :
                         x.pos < y.pos
                         => version_created_at(x.id) >= version_created_at(y.id)
        /\ (Calls("delete_checkpoint") /\ last'.result = "ok")
           => /\ \E c \in checkpoints_at(last'.user_id, last'.path) :
                     c.id = last'.checkpoint_id
              /\ checkpoints' = { c \in checkpoints : c.id # last'.checkpoint_id }
              /\ files' = files
      ]_vars

\* A listing returned two checkpoints, the one of the later version first.
C16_Witness ==
    /\ last.op = "list_checkpoints"
    /\ \E x \in last.ret, y \in last.ret :
           /\ x.pos = 1 /\ y.pos = 2
           /\ \E c \in checkpoints, d \in checkpoints :
                  /\ c.id = x.id /\ d.id = y.id
                  /\ version_created_at(c.id) > version_created_at(d.id)

\* The remote checkpoints of a user stored under a path.
snapshots_under(rows, user_id, db_path) ==
    { r \in rows : r.user_id = user_id /\ r.path = db_path }

\* move_single_remote_checkpoint(user, src, dest, k): with no snapshot
\* (user, src, k) it raises NoSuchCheckpoint and changes nothing; otherwise
\* that snapshot's path becomes dest, its id, content and last_modified and
\* every other snapshot stay as they were.
MoveSingleRewritesOnePath ==
    Calls("move_single_remote_checkpoint")
    => LET target == { r \in snapshots_under(remote_checkpoints, last'.user_id,
                                             from_api_filename(last'.path)) :
                         r.id = last'.checkpoint_id }
       IN  IF target = {}
           THEN /\ last'.result = "NoSuchCheckpoint"
                /\ remote_checkpoints' = remote_checkpoints
           ELSE /\ last'.result = "ok"
                /\ Cardinality(target) = 1
                /\ remote_checkpoints' = (remote_checkpoints \ target)
                       \cup { [r EXCEPT !.path = from_api_filename(last'.path2)]
                              : r \in target }

\* Every snapshot that was under src is under dest with its id and content.
MovedSnapshotsAreUnderDest ==
    \A r \in snapshots_under(remote_checkpoints, last'.user_id,
                             from_api_filename(last'.path)) :
        \E q \in snapshots_under(remote_checkpoints', last'.user_id,
                                 from_api_filename(last'.path2)) :
            q.id = r.id /\ q.content = r.content

\* C17 as claimed: move_single_remote_checkpoint rewrites one snapshot's path
\* or raises NoSuchCheckpoint; move_remote_checkpoints(user, src, dest)
\* leaves no snapshot of the user under src and every snapshot that was under
\* src under dest with its id and content.
C17_MoveLeavesSrcEmpty ==
    [][ /\ MoveSingleRewritesOnePath
        /\ Calls("move_remote_checkpoints")
           => /\ snapshots_under(remote_checkpoints', last'.user_id,
                                 from_api_filename(last'.path)) = {}
              /\ MovedSnapshotsAreUnderDest
      ]_vars

\* C17: move_single_remote_checkpoint rewrites one snapshot's path or raises
\* NoSuchCheckpoint; move_remote_checkpoints(user, src, dest) leaves every
\* snapshot that was under src under dest with its id and content, and, when
\* dest is another path than src, leaves no snapshot of the user under src.
C17_MoveRemoteCheckpoints ==
    [][ /\ MoveSingleRewritesOnePath
        /\ Calls("move_remote_checkpoints")
           => /\ from_api_filename(last'.path) # from_api_filename(last'.path2)
                 => snapshots_under(remote_checkpoints', last'.user_id,
                                    from_api_filename(last'.path)) = {}
              /\ MovedSnapshotsAreUnderDest
      ]_vars

\* One of two snapshots of a path was moved to the other path.
C17_Witness ==
    /\ last.op = "move_single_remote_checkpoint"
    /\ last.result = "ok"
    /\ last.path # last.path2
    /\ \E r \in snapshots_under(remote_checkpoints, last.user_id,
                                from_api_filename(last.path2)) :
           r.id = last.checkpoint_id
    /\ snapshots_under(remote_checkpoints, last.user_id,
                       from_api_filename(last.path)) # {}

\* C18: get_directory(user, d, content=True) raises NoSuchDirectory when the
\* user has no directory d; otherwise the files it returns are exactly the
\* names of the user's files whose stored parent_name equals d's encoded name,
\* and the subdirectories exactly the user's directories whose parent_name
\* equals it: nothing deeper, nothing that only shares a prefix.
C18_GetDirectory ==
    [][ Calls("get_directory")
        => LET u == last'.user_id
               d == from_api_dirname(last'.path)
               listed_files == { x \in last'.ret : x.parent_name # NullStr }
               listed_subdirs == { x \in last'.ret : x.parent_name = NullStr }
           IN  IF ~ \E e \in directories : e.user_id = u /\ e.name = d
               THEN last'.result = "NoSuchDirectory" /\ last'.ret = {}
               ELSE /\ last'.result = "ok"
                    /\ \A x \in listed_files : x.parent_name = d
                    /\ { x.name : x \in listed_files }
                         = { f.name : f \in { g \in files :
                                 g.user_id = u /\ g.parent_name = d } }
                    /\ { x.name : x \in listed_subdirs }
                         = { e.name : e \in { g \in directories :
                                 g.user_id = u /\ g.parent_name = d } }
      ]_vars

\* A listing of a directory returned its file and its subdirectory while a
\* file lies deeper, in the subdirectory.
C18_Witness ==
    /\ last.op = "get_directory"
    /\ last.result = "ok"
    /\ \E x \in last.ret, y \in last.ret :
           x.parent_name # NullStr /\ y.parent_name = NullStr
    /\ \E f \in files :
           /\ f.parent_name # from_api_dirname(last.path)
           /\ Len(f.parent_name) > Len(from_api_dirname(last.path))
           /\ SubSeq(f.parent_name, 1, Len(from_api_dirname(last.path)))
                = from_api_dirname(last.path)

FileOperations ==
    { "save_file", "delete_file", "rename_file", "create_checkpoint",
      "restore_checkpoint", "delete_checkpoint" }

RemoteOperations ==
    { "save_remote_checkpoint", "get_remote_checkpoint",
      "list_remote_checkpoints", "delete_single_remote_checkpoint",
      "delete_remote_checkpoints", "move_single_remote_checkpoint",
      "move_remote_checkpoints", "purge_remote_checkpoints",
      "latest_remote_checkpoints" }

\* C19: the remote checkpoints and the versioned files do not touch each
\* other.  save_file, delete_file, rename_file, create_checkpoint,
\* restore_checkpoint and delete_checkpoint leave every remote checkpoint as
\* it is; save_remote_checkpoint stores the content under the id it returns
\* and get_remote_checkpoint(user, p, k) returns the content stored under
\* (user, p, k), whatever was done to the file p; no remote checkpoint
\* operation changes a row of files or checkpoints.
C19_StoresAreIndependent ==
    [][ /\ (\E op \in FileOperations : Calls(op))
           => remote_checkpoints' = remote_checkpoints
        /\ (\E op \in RemoteOperations : Calls(op))
           => files' = files /\ checkpoints' = checkpoints
        /\ Calls("save_remote_checkpoint")
           => \E x \in last'.ret :
                  /\ int(x.id_unicode) \notin { r.id : r \in remote_checkpoints }
                  /\ remote_checkpoints' = remote_checkpoints \cup
                         {[id |-> int(x.id_unicode), user_id |-> last'.user_id,
                           path |-> from_api_filename(last'.path),
                           content |-> last'.content, last_modified |-> now]}
        /\ Calls("get_remote_checkpoint")
           => LET stored == { r \in remote_checkpoints :
                                /\ r.user_id = last'.user_id
                                /\ r.path = from_api_filename(last'.path)
                                /\ r.id = last'.checkpoint_id }
              IN  IF stored = {}
                  THEN last'.result = "NoSuchCheckpoint"
                  ELSE /\ last'.result = "ok"
                       /\ { x.content : x \in last'.ret }
                            = { r.content : r \in stored }
                       /\ Cardinality(last'.ret) = 1
      ]_vars

\* A remote checkpoint of 'f' was read after the file 'f' had been saved,
\* checkpointed and then deleted or renamed away.
C19_Witness ==
    /\ last.op = "get_remote_checkpoint"
    /\ last.result = "ok"
    /\ \E x \in last.ret : x.content \in Contents
    /\ file_id_seq > 0
    /\ checkpoint_id_seq > 0
    /\ ~ \E f \in files : _file_where(f, last.user_id, last.path)

\* What user v owns in the tables us, ds, fs, cs, rs: its row of users, its
\* directories, its file versions, the checkpoints of those versions and its
\* remote checkpoints.
owned(v, us, ds, fs, cs, rs) ==
    << v \in us,
       { d \in ds : d.user_id = v },
       { f \in fs : f.user_id = v },
       { c \in cs : \E f \in fs : f.user_id = v /\ f.id = c.file_id },
       { r \in rs : r.user_id = v } >>

====
